---- MODULE Spec2Model ----
(***************************************************************************)
(* Content ingestion and content-addressed deduplication pipeline of the   *)
(* guide package: ContentManager (content_manager.py), VectorStore,        *)
(* Document and DocumentChunk (vector_store.py) and the /api/import        *)
(* handler (web_interface.py), and the ThermalMonitor of main.py.          *)
(*                                                                         *)
(* Text is a sequence of one-character strings.  sha256 is a symbolic,     *)
(* collision-free digest of the exact byte sequence it is given; the       *)
(* 8-hex-digit prefixes taken by create_chunk_id are kept collision-free   *)
(* as well.                                                                *)
(***************************************************************************)
EXTENDS Integers, Sequences, FiniteSets, TLC

VARIABLES
    content,        \* SpecChunk: the text being chunked
    chunk_size,     \* SpecChunk: configured chunk size
    chunk_overlap,  \* SpecChunk: configured chunk overlap
    w,              \* SpecChunk: position of ContentManager._chunk_content's loop
    c,              \* SpecChunk: position of VectorStore._chunk_document's loop
    fs,             \* the files: path -> [content, mtime]
    config,         \* the process-wide config: content.chunk_size, content.chunk_overlap
    index,          \* the ChromaDB collection: the records handed to collection.add, in order
    now,            \* the clock read by datetime.now()
    calls,          \* the /api/import calls: handler -> its position, locals and log
    runs,           \* SpecChunk: the chunk ids returned by the completed _chunk_document runs
    src,            \* SpecHash: a source as it is now: source, title, timestamp, content
    stored,         \* SpecHash: the source and its hashes as stored at the last ingestion
    verdict,        \* SpecHash: the result of the last change check, <<>> when stale
    tm,             \* SpecThermal: the fields of the ThermalMonitor
    threads,        \* SpecThermal: the monitor threads created so far, by number
    last_avg,       \* SpecThermal: the average last given to _check_thermal_thresholds
    ctl             \* SpecThermal: the position of the thread calling start/stop

chunkVars == <<content, chunk_size, chunk_overlap, w, c>>
pipeVars == <<fs, config, index, now, calls, runs>>
hashVars == <<src, stored, verdict>>
thermalVars == <<tm, threads, last_avg, ctl>>
vars == <<content, chunk_size, chunk_overlap, w, c, fs, config, index, now, calls, runs,
          src, stored, verdict, tm, threads, last_avg, ctl>>

----------------------------------------------------------------------------
(* Bounds of the model *)

MaxLen == 4
MaxChunkSize == 3
MaxOverlap == 3
MaxCalls == 2
MaxCfgChunkSize == 2
MaxFieldLen == 1

----------------------------------------------------------------------------
(* Text primitives (Python str) *)

Whitespace == {" ", "\n", "\t"}
ContentChars == {"a", "b", " ", "\n"}

Min(S) == CHOOSE x \in S : \A y \in S : x <= y
Max(S) == CHOOSE x \in S : \A y \in S : x >= y
MinOf(x, y) == IF x <= y THEN x ELSE y
MaxOf(x, y) == IF x >= y THEN x ELSE y

\* Python s[lo:hi]: a negative bound counts from the end, both are clamped
Slice(s, lo, hi) ==
    LET from == IF lo < 0 THEN MaxOf(lo + Len(s), 0) ELSE MinOf(lo, Len(s))
        to == IF hi < 0 THEN MaxOf(hi + Len(s), 0) ELSE MinOf(hi, Len(s))
    IN  SubSeq(s, from + 1, to)

RECURSIVE LStrip(_)
LStrip(s) == IF s # <<>> /\ Head(s) \in Whitespace THEN LStrip(Tail(s)) ELSE s

RECURSIVE RStrip(_)
RStrip(s) ==
    IF s # <<>> /\ s[Len(s)] \in Whitespace
    THEN RStrip(SubSeq(s, 1, Len(s) - 1))
    ELSE s

\* str.strip()
Strip(s) == RStrip(LStrip(s))

\* str.split(): the maximal runs of non-whitespace characters
RECURSIVE Split(_)
Split(s) ==
    LET t == LStrip(s)
        ws == {i \in 1..Len(t) : t[i] \in Whitespace}
        n == IF ws = {} THEN Len(t) ELSE Min(ws) - 1
    IN  IF t = <<>> THEN <<>>
        ELSE <<SubSeq(t, 1, n)>> \o Split(SubSeq(t, n + 1, Len(t)))

\* "".join(words): the separator forgotten
RECURSIVE JoinNoSpace(_)
JoinNoSpace(words) == IF words = <<>> THEN <<>> ELSE words[1] \o JoinNoSpace(Tail(words))

\* " ".join(words)
RECURSIVE Join(_)
Join(words) ==
    IF words = <<>> THEN <<>>
    ELSE IF Len(words) = 1 THEN words[1]
    ELSE words[1] \o <<" ">> \o Join(Tail(words))

\* str.rfind(ch, lo, hi): the highest 0-based index in [lo, hi) holding ch, or -1
RFind(s, ch, lo, hi) ==
    LET hits == {i \in lo..(hi - 1) : i >= 0 /\ i < Len(s) /\ s[i + 1] = ch}
    IN  IF hits = {} THEN -1 ELSE Max(hits)

\* All texts over an alphabet of length at most n
RECURSIVE TextsUpTo(_, _)
TextsUpTo(A, n) ==
    IF n = 0 THEN {<<>>}
    ELSE LET shorter == TextsUpTo(A, n - 1)
         IN  shorter \cup {Append(s, ch) : s \in {t \in shorter : Len(t) = n - 1}, ch \in A}

----------------------------------------------------------------------------
(* Hasher and Identity Assigner *)

\* hashlib.sha256(data).hexdigest(): a collision-free digest of the exact bytes
Sha256(data) == [sha256 |-> data]

\* digest[:8]
Hex8(digest) == [hex8 |-> digest.sha256]

\* Document._calculate_hash / DocumentChunk._calculate_hash / VectorStore._calculate_hash
CalculateHash(text) == Sha256(Strip(text))

DigitChar(d) == <<"0", "1", "2", "3", "4", "5", "6", "7", "8", "9">>[d + 1]

RECURSIVE Digits(_)
Digits(n) == IF n < 10 THEN <<DigitChar(n)>> ELSE Digits(n \div 10) \o <<DigitChar(n % 10)>>

\* f"{n:04d}"
Pad4(n) ==
    LET d == Digits(n)
    IN  IF Len(d) >= 4 THEN d ELSE [i \in 1..(4 - Len(d)) |-> "0"] \o d

\* DocumentChunk.create_chunk_id
create_chunk_id(document_source, chunk_index, content_hash) ==
    [tag |-> "chunk",
     source_hash |-> Hex8(Sha256(document_source)),
     index |-> Pad4(chunk_index),
     content |-> Hex8(content_hash)]

----------------------------------------------------------------------------
(* Dictionaries (metadata) *)

EmptyDict == [k \in {} |-> 0]
DictGet(d, k, default) == IF k \in DOMAIN d THEN d[k] ELSE default
\* {**d1, **d2}
DictMerge(d1, d2) ==
    [k \in (DOMAIN d1) \cup (DOMAIN d2) |-> IF k \in DOMAIN d2 THEN d2[k] ELSE d1[k]]

\* Document(source, content, metadata) constructed at time t
NewDocument(source, text, metadata, t) ==
    [source |-> source,
     content |-> text,
     metadata |-> metadata,
     content_hash |-> CalculateHash(text),
     created_at |-> t]

\* DocumentChunk(...) constructed at time t
NewDocumentChunk(chunk_id, document_source, text, chunk_index, size, overlap, metadata, t) ==
    [chunk_id |-> chunk_id,
     document_source |-> document_source,
     content |-> text,
     chunk_index |-> chunk_index,
     chunk_size |-> size,
     chunk_overlap |-> overlap,
     metadata |-> metadata,
     content_hash |-> CalculateHash(text),
     created_at |-> t]

----------------------------------------------------------------------------
(* Chunker, word-count variant: ContentManager._chunk_content *)

WordLoopInit == [start |-> 0, chunks |-> <<>>, pc |-> "loop"]

\* start = max(next_start, start): the floor does not advance
WordNextStartNoAdvance(start, end, overlap) == MaxOf(end - overlap, start)

\* start = max(end, start + 1): the overlap forgotten
WordNextStartNoOverlap(start, end, overlap) == MaxOf(end, start + 1)

\* start = end + 1: a word left out between two chunks
WordNextStartSkips(start, end, overlap) == end + 1

\* start = max(next_start, start + 1)
WordNextStart(start, end, overlap) == MaxOf(end - overlap, start + 1)

\* one evaluation of the while condition and, when it holds, of the loop body
WordLoopStep(words, size, overlap, st) ==
    IF st.start < Len(words)
    THEN LET end == MinOf(st.start + size, Len(words))
             chunk == Join(Slice(words, st.start, end))
             chunks == Append(st.chunks, chunk)
         IN  IF end >= Len(words)
             THEN [start |-> st.start, chunks |-> chunks, pc |-> "done"]
             ELSE [start |-> WordNextStart(st.start, end, overlap),
                   chunks |-> chunks, pc |-> "loop"]
    ELSE [st EXCEPT !.pc = "done"]

RECURSIVE WordLoopRun(_, _, _, _)
WordLoopRun(words, size, overlap, st) ==
    IF st.pc = "done" THEN st
    ELSE WordLoopRun(words, size, overlap, WordLoopStep(words, size, overlap, st))

\* return chunks: the fallback forgotten
WordResultNoFallback(text, chunks) == chunks

\* return chunks if chunks else [content]
WordResult(text, chunks) == IF chunks # <<>> THEN chunks ELSE <<text>>

_chunk_content(text, size, overlap) ==
    WordResult(text, WordLoopRun(Split(text), size, overlap, WordLoopInit).chunks)

----------------------------------------------------------------------------
(* Chunker, character-count variant: VectorStore._chunk_document *)

SnapWindow == 50

CharLoopInit == [start |-> 0, chunk_index |-> 0, chunks |-> <<>>, pc |-> "loop"]

\* end after the word-boundary search
SnapEnd(text, start, size) ==
    LET end == MinOf(start + size, Len(text))
        last_space == RFind(text, " ", MaxOf(start, end - SnapWindow), end)
    IN  IF end < Len(text) /\ last_space > start THEN last_space ELSE end

\* start = max(start + 1, end - chunk_overlap)
CharNextStart(start, end, overlap) == MaxOf(start + 1, end - overlap)

\* the chunk id salted with the creation time
MakeChunkStamped(document, chunk_content, chunk_index, overlap, t) ==
    NewDocumentChunk(
        create_chunk_id(document.source, chunk_index, Sha256(<<chunk_content, t>>)),
        document.source,
        chunk_content,
        chunk_index,
        Len(chunk_content),
        IF chunk_index > 0 THEN overlap ELSE 0,
        [document_created_at |-> document.created_at,
         source_type |-> DictGet(document.metadata, "source_type", "unknown")],
        t)

\* chunk_overlap recorded on the first chunk as well
MakeChunkOverlapAlways(document, chunk_content, chunk_index, overlap, t) ==
    NewDocumentChunk(
        create_chunk_id(document.source, chunk_index, Sha256(chunk_content)),
        document.source,
        chunk_content,
        chunk_index,
        Len(chunk_content),
        overlap,
        [document_created_at |-> document.created_at,
         source_type |-> DictGet(document.metadata, "source_type", "unknown")],
        t)

\* the DocumentChunk built for a non-empty trimmed slice
MakeChunk(document, chunk_content, chunk_index, overlap, t) ==
    NewDocumentChunk(
        create_chunk_id(document.source, chunk_index, Sha256(chunk_content)),
        document.source,
        chunk_content,
        chunk_index,
        Len(chunk_content),
        IF chunk_index > 0 THEN overlap ELSE 0,
        [document_created_at |-> document.created_at,
         source_type |-> DictGet(document.metadata, "source_type", "unknown")],
        t)

\* chunk_index advanced for every slice, kept or dropped
CharLoopStepCountsDropped(document, size, overlap, t, st) ==
    LET text == document.content IN
    IF st.start < Len(text)
    THEN LET end == SnapEnd(text, st.start, size)
             chunk_content == Strip(Slice(text, st.start, end))
             chunks == IF chunk_content # <<>>
                       THEN Append(st.chunks,
                                   MakeChunk(document, chunk_content, st.chunk_index, overlap, t))
                       ELSE st.chunks
         IN  IF end >= Len(text)
             THEN [start |-> st.start, chunk_index |-> st.chunk_index + 1,
                   chunks |-> chunks, pc |-> "done"]
             ELSE [start |-> CharNextStart(st.start, end, overlap),
                   chunk_index |-> st.chunk_index + 1, chunks |-> chunks, pc |-> "loop"]
    ELSE [st EXCEPT !.pc = "done"]

\* "if chunk_content:" forgotten: every slice makes a chunk
CharLoopStepKeepsEmpty(document, size, overlap, t, st) ==
    LET text == document.content IN
    IF st.start < Len(text)
    THEN LET end == SnapEnd(text, st.start, size)
             chunk_content == Strip(Slice(text, st.start, end))
             chunks == Append(st.chunks,
                              MakeChunk(document, chunk_content, st.chunk_index, overlap, t))
         IN  IF end >= Len(text)
             THEN [start |-> st.start, chunk_index |-> st.chunk_index + 1,
                   chunks |-> chunks, pc |-> "done"]
             ELSE [start |-> CharNextStart(st.start, end, overlap),
                   chunk_index |-> st.chunk_index + 1, chunks |-> chunks, pc |-> "loop"]
    ELSE [st EXCEPT !.pc = "done"]

\* one evaluation of the while condition and, when it holds, of the loop body
CharLoopStep(document, size, overlap, t, st) ==
    LET text == document.content IN
    IF st.start < Len(text)
    THEN LET end == SnapEnd(text, st.start, size)
             chunk_content == Strip(Slice(text, st.start, end))
             keep == chunk_content # <<>>
             chunks == IF keep
                       THEN Append(st.chunks,
                                   MakeChunk(document, chunk_content, st.chunk_index, overlap, t))
                       ELSE st.chunks
             next_index == IF keep THEN st.chunk_index + 1 ELSE st.chunk_index
         IN  IF end >= Len(text)
             THEN [start |-> st.start, chunk_index |-> next_index, chunks |-> chunks, pc |-> "done"]
             ELSE [start |-> CharNextStart(st.start, end, overlap),
                   chunk_index |-> next_index, chunks |-> chunks, pc |-> "loop"]
    ELSE [st EXCEPT !.pc = "done"]

RECURSIVE CharLoopRun(_, _, _, _, _)
CharLoopRun(document, size, overlap, t, st) ==
    IF st.pc = "done" THEN st
    ELSE CharLoopRun(document, size, overlap, t, CharLoopStep(document, size, overlap, t, st))

_chunk_document(document, size, overlap, t) ==
    CharLoopRun(document, size, overlap, t, CharLoopInit).chunks

----------------------------------------------------------------------------
(* SpecChunk: both chunkers, one loop iteration per step, over every text,   *)
(* chunk_size >= 1 and chunk_overlap >= 0 within the bounds                  *)

\* "a b c d e f g h i j"
Scenario1 == <<"a", " ", "b", " ", "c", " ", "d", " ", "e", " ",
               "f", " ", "g", " ", "h", " ", "i", " ", "j">>

ChunkTexts == TextsUpTo(ContentChars, MaxLen) \cup {Scenario1}

\* the pipeline's variables while only the chunkers run
PipeIdle ==
    /\ fs = EmptyDict
    /\ config = EmptyDict
    /\ index = <<>>
    /\ now = 0
    /\ calls = EmptyDict
    /\ runs = <<>>

\* the hasher's variables while it is not under observation
HashIdle ==
    /\ src = EmptyDict
    /\ stored = EmptyDict
    /\ verdict = <<>>

\* the thermal monitor's variables while it is not under observation
ThermalIdle ==
    /\ tm = EmptyDict
    /\ threads = <<>>
    /\ last_avg = <<>>
    /\ ctl = EmptyDict

\* the Document handed to _chunk_document in SpecChunk
ChunkDoc == NewDocument(<<"p">>, content, EmptyDict, now)

InitChunk ==
    /\ content \in ChunkTexts
    /\ chunk_size \in 1..MaxChunkSize
    /\ chunk_overlap \in 0..MaxOverlap
    /\ w = WordLoopInit
    /\ c = CharLoopInit
    /\ PipeIdle
    /\ HashIdle
    /\ ThermalIdle

\* ContentManager._chunk_content: one loop iteration, the return included
WordStep ==
    /\ w.pc = "loop"
    /\ LET st == WordLoopStep(Split(content), chunk_size, chunk_overlap, w)
       IN  w' = IF st.pc = "done"
                THEN [st EXCEPT !.chunks = WordResult(content, st.chunks)]
                ELSE st
    /\ UNCHANGED <<content, chunk_size, chunk_overlap, c>>
    /\ UNCHANGED pipeVars
    /\ UNCHANGED hashVars
    /\ UNCHANGED thermalVars

\* VectorStore._chunk_document: one loop iteration
CharStep ==
    /\ c.pc = "loop"
    /\ c' = CharLoopStep(ChunkDoc, chunk_size, chunk_overlap, now, c)
    /\ UNCHANGED <<content, chunk_size, chunk_overlap, w>>
    /\ UNCHANGED pipeVars
    /\ UNCHANGED hashVars
    /\ UNCHANGED thermalVars

ChunkIds(chunks) == [k \in 1..Len(chunks) |-> chunks[k].chunk_id]

\* the same document is handed to _chunk_document again, later
Rechunk ==
    /\ c.pc = "done"
    /\ runs = <<>>
    /\ now' = now + 1
    /\ runs' = Append(runs, ChunkIds(c.chunks))
    /\ c' = CharLoopInit
    /\ UNCHANGED <<content, chunk_size, chunk_overlap, w>>
    /\ UNCHANGED <<fs, config, index, calls>>
    /\ UNCHANGED hashVars
    /\ UNCHANGED thermalVars

NextChunk == WordStep \/ CharStep \/ Rechunk

SpecChunk == InitChunk /\ [][NextChunk]_vars

----------------------------------------------------------------------------
(* Claims about the chunkers (SpecChunk) *)

WordCount == Len(Split(content))

\* Both loops advance: an iteration that goes round again leaves start strictly
\* larger, and start stays below the length while the loop runs.
StartAdvances ==
    /\ [][(w' # w /\ w.pc = "loop" /\ w'.pc = "loop") => w'.start > w.start]_vars
    /\ [][(c' # c /\ c.pc = "loop" /\ c'.pc = "loop") => c'.start > c.start]_vars
    /\ [](w.pc = "loop" => (w.start < WordCount \/ w = WordLoopInit))
    /\ [](c.pc = "loop" => (c.start < Len(content) \/ c = CharLoopInit))

\* C1 as stated: the word-count variant never returns more chunks than there are
\* words, for every content string (and both loops advance).
C1_AsStated == w.pc = "done" => Len(w.chunks) <= WordCount

\* C1 (amended): for every content, chunk_size >= 1 and chunk_overlap >= 0, both
\* chunking loops strictly increase start on every iteration that continues, so
\* they terminate, and the word-count variant returns at most max(word_count, 1)
\* chunks (exactly one chunk when the content has no word).
C1_ForwardProgress ==
    /\ StartAdvances
    /\ [](w.pc = "done" => Len(w.chunks) <= MaxOf(WordCount, 1))
    /\ []((w.pc = "done" /\ WordCount = 0) => Len(w.chunks) = 1)

C1_Witness ==
    /\ chunk_overlap >= chunk_size
    /\ w.pc = "done" /\ Len(w.chunks) >= 3
    /\ c.pc = "done" /\ Len(c.chunks) >= 3

\* the reference rule of C2
RECURSIVE RefChunks(_, _, _, _)
RefChunks(words, size, overlap, start) ==
    LET end == MinOf(start + size, Len(words))
        chunk == Join(SubSeq(words, start + 1, end))
    IN  IF end >= Len(words) THEN <<chunk>>
        ELSE <<chunk>> \o RefChunks(words, size, overlap, MaxOf(end - overlap, start + 1))

Scenario1Chunks ==
    << <<"a", " ", "b", " ", "c">>, <<"c", " ", "d", " ", "e">>,
       <<"e", " ", "f", " ", "g">>, <<"g", " ", "h", " ", "i">>, <<"i", " ", "j">> >>

\* the last n elements of a sequence / the first n
LastN(s, n) == SubSeq(s, Len(s) - n + 1, Len(s))
FirstN(s, n) == SubSeq(s, 1, n)

\* C2: for content with at least one word, _chunk_content returns exactly the
\* reference sequence; 'a b c d e f g h i j' with chunk_size 3 and overlap 1 gives
\* the five chunks of scenario 1; with overlap < chunk_size every non-first chunk
\* begins with the last chunk_overlap words of the chunk before it.
C2_ReferenceRule ==
    (w.pc = "done" /\ WordCount >= 1) =>
        /\ w.chunks = RefChunks(Split(content), chunk_size, chunk_overlap, 0)
        /\ (content = Scenario1 /\ chunk_size = 3 /\ chunk_overlap = 1)
               => w.chunks = Scenario1Chunks
        /\ chunk_overlap < chunk_size =>
               \A k \in 2..Len(w.chunks) :
                   /\ Len(Split(w.chunks[k])) >= chunk_overlap
                   /\ FirstN(Split(w.chunks[k]), chunk_overlap)
                          = LastN(Split(w.chunks[k - 1]), chunk_overlap)

C2_Witness ==
    /\ content = Scenario1 /\ chunk_size = 3 /\ chunk_overlap = 1
    /\ w.pc = "done" /\ Len(w.chunks) = 5

\* C3: content with zero words (empty or whitespace-only) gives exactly one chunk,
\* the original content unchanged, under every chunk configuration.
C3_ZeroWords ==
    (w.pc = "done" /\ WordCount = 0) => w.chunks = <<content>>

C3_Witness ==
    /\ w.pc = "done" /\ content = <<" ", " ">> /\ w.chunks = << <<" ", " ">> >>

\* every whitespace character of the stripped text is one space between two words
SingleSpaced(text) ==
    LET t == Strip(text)
    IN  \A i \in 1..Len(t) :
            t[i] \in Whitespace => (t[i] = " " /\ t[i + 1] \notin Whitespace)

CharChunkTexts == [k \in 1..Len(c.chunks) |-> c.chunks[k].content]

\* C4 as stated: content shorter than chunk_size gives exactly one chunk equal to
\* content.strip(), in both variants.
C4_AsStated ==
    /\ (w.pc = "done" /\ WordCount < chunk_size) => w.chunks = <<Strip(content)>>
    /\ (c.pc = "done" /\ Len(content) < chunk_size) => CharChunkTexts = <<Strip(content)>>

\* C4 (amended): content shorter than chunk_size that holds at least one
\* non-whitespace character gives exactly one chunk; in the character-count
\* variant it equals content.strip(); in the word-count variant it is the words
\* joined by single spaces, which is content.strip() whenever the words are
\* separated by single spaces.  Content without a word gives the content itself
\* (word-count variant) or no chunk at all (character-count variant).
C4_ShortContent ==
    /\ (w.pc = "done" /\ WordCount < chunk_size /\ WordCount >= 1) =>
           /\ w.chunks = <<Join(Split(content))>>
           /\ SingleSpaced(content) => w.chunks = <<Strip(content)>>
    /\ (c.pc = "done" /\ Len(content) < chunk_size /\ Strip(content) # <<>>) =>
           CharChunkTexts = <<Strip(content)>>
    /\ (w.pc = "done" /\ WordCount = 0) => w.chunks = <<content>>
    /\ (c.pc = "done" /\ Strip(content) = <<>>) => c.chunks = <<>>

C4_Witness ==
    /\ content = <<" ", "a">> /\ chunk_size = 3
    /\ w.pc = "done" /\ w.chunks = << <<"a">> >>
    /\ c.pc = "done" /\ CharChunkTexts = << <<"a">> >>

\* the chunk id the identity rule gives a chunk, from its own fields
RuleChunkId(chunk) ==
    [tag |-> "chunk",
     source_hash |-> Hex8(Sha256(chunk.document_source)),
     index |-> Pad4(chunk.chunk_index),
     content |-> Hex8(Sha256(Strip(chunk.content)))]

\* C5: a document chunked twice without modification, at different times, gets
\* the same chunk ids both times (in the same order, hence the same multiset), and
\* every chunk id is 'chunk_' + sha256(document_source)[:8] + '_' + the 4-digit
\* chunk_index + '_' + content_hash[:8]: no timestamp or randomness enters it.
C5_IdempotentIdentity ==
    /\ (c.pc = "done" /\ runs # <<>>) => ChunkIds(c.chunks) = runs[1]
    /\ \A k \in 1..Len(c.chunks) : c.chunks[k].chunk_id = RuleChunkId(c.chunks[k])

C5_Witness ==
    /\ c.pc = "done" /\ runs # <<>> /\ Len(runs[1]) >= 2
    /\ Len(c.chunks) >= 2 /\ c.chunks[1].created_at = 1

----------------------------------------------------------------------------
(* ContentManager: hashes and metadata *)

Bar == <<"|">>

\* ContentManager.calculate_content_hash: the content is not stripped
calculate_content_hash(text) == Sha256(text)

\* the content stripped before hashing
calculate_source_hash_stripped(source, title, timestamp, text) ==
    Sha256(source \o Bar \o title \o Bar \o timestamp \o Bar \o Strip(text))

\* ContentManager.calculate_source_hash
calculate_source_hash(source, title, timestamp, text) ==
    Sha256(source \o Bar \o title \o Bar \o timestamp \o Bar \o text)

\* ContentManager.check_content_changed
check_content_changed(source, current_content, stored_content_hash) ==
    calculate_content_hash(current_content) # stored_content_hash

\* ContentManager.check_source_changed
check_source_changed(source, title, timestamp, text, stored_source_hash) ==
    calculate_source_hash(source, title, timestamp, text) # stored_source_hash

\* str.split(sep) for a one-character separator
RECURSIVE SplitOn(_, _)
SplitOn(s, sep) ==
    LET hits == {i \in 1..Len(s) : s[i] = sep}
    IN  IF hits = {} THEN <<s>>
        ELSE <<SubSeq(s, 1, Min(hits) - 1)>> \o SplitOn(SubSeq(s, Min(hits) + 1, Len(s)), sep)

\* str.lstrip(ch)
RECURSIVE LStripChar(_, _)
LStripChar(s, ch) == IF s # <<>> /\ Head(s) = ch THEN LStripChar(Tail(s), ch) ELSE s

StartsWith(s, prefix) == Len(s) >= Len(prefix) /\ SubSeq(s, 1, Len(prefix)) = prefix
EndsWith(s, suffix) ==
    Len(s) >= Len(suffix) /\ SubSeq(s, Len(s) - Len(suffix) + 1, Len(s)) = suffix

TitleOpen == <<"<", "t", "i", "t", "l", "e", ">">>
TitleClose == <<"<", "/", "t", "i", "t", "l", "e", ">">>

\* Path.stem: the last path component without its last suffix
Stem(path) ==
    LET slash == RFind(path, "/", 0, Len(path))
        name == Slice(path, slash + 1, Len(path))
        dot == RFind(name, ".", 0, Len(name))
    IN  IF dot > 0 /\ dot < Len(name) - 1 THEN Slice(name, 0, dot) ELSE name

\* Path.suffix.lower() for the lower-case names of the model
Suffix(path) ==
    LET slash == RFind(path, "/", 0, Len(path))
        name == Slice(path, slash + 1, Len(path))
        dot == RFind(name, ".", 0, Len(name))
    IN  IF dot > 0 /\ dot < Len(name) - 1 THEN Slice(name, dot, Len(name)) ELSE <<>>

\* datetime.fromtimestamp(mtime).isoformat()
IsoFormat(mtime) == Digits(mtime)

\* the title _extract_metadata derives, before the fallback of the returned dict
ExtractTitle(path, text) ==
    LET lines == SplitOn(Strip(text), "\n")
        first == IF lines # <<>> THEN Strip(lines[1]) ELSE Stem(path)
        title == Strip(LStripChar(first, "#"))
    IN  IF StartsWith(title, TitleOpen) /\ EndsWith(title, TitleClose)
        THEN Slice(title, Len(TitleOpen), Len(title) - Len(TitleClose))
        ELSE title

\* ContentManager._extract_metadata
_extract_metadata(path, text, mtime) ==
    LET title == ExtractTitle(path, text)
        timestamp == IsoFormat(mtime)
    IN  [source |-> path,
         title |-> IF title # <<>> THEN title ELSE Stem(path),
         timestamp |-> timestamp,
         content_hash |-> Sha256(text),
         source_hash |-> Sha256(path \o Bar \o title \o Bar \o timestamp \o Bar \o text)]

\* ContentManager.ingest_file for a readable file: the chunk dicts it returns
ingest_file(path, file, size, overlap) ==
    LET metadata == _extract_metadata(path, file.content, file.mtime)
        chunks == _chunk_content(file.content, size, overlap)
    IN  [i \in 1..Len(chunks) |->
            [content |-> chunks[i],
             metadata |-> DictMerge(metadata,
                                    [chunk_index |-> i - 1, chunk_count |-> Len(chunks)])]]

----------------------------------------------------------------------------
(* VectorStore.add_documents *)

Unknown == <<"u", "n", "k", "n", "o", "w", "n">>

\* Document(source=doc.get("source", "unknown"), content=doc["content"],
\*          metadata=doc.get("metadata", {}))
ToDocument(doc, t) ==
    NewDocument(DictGet(doc, "source", Unknown), doc["content"],
                DictGet(doc, "metadata", EmptyDict), t)

\* collection.get(where={key: h}, limit=1) finds a record
IndexHas(idx, key, h) ==
    \E k \in 1..Len(idx) : key \in DOMAIN idx[k].metadata /\ idx[k].metadata[key] = h

\* the outcome of one lookup: "error" when collection.get raises
Lookup(idx, key, h, fails) ==
    IF fails THEN "error" ELSE IF IndexHas(idx, key, h) THEN "hit" ELSE "miss"

\* the lookup made on the content_hash key of the metadata
_is_document_duplicate_wrong_key(idx, h, fails) == Lookup(idx, "content_hash", h, fails) = "hit"

\* VectorStore._is_document_duplicate
_is_document_duplicate(idx, h, fails) == Lookup(idx, "document_hash", h, fails) = "hit"

\* a failed lookup taken for a duplicate
_is_chunk_duplicate_on_error(idx, h, fails) == Lookup(idx, "chunk_hash", h, fails) # "miss"

\* VectorStore._is_chunk_duplicate
_is_chunk_duplicate(idx, h, fails) == Lookup(idx, "chunk_hash", h, fails) = "hit"

\* the combined metadata without the two hashes the duplicate checks look up
CombinedMetadataNoHashes(document, chunk) ==
    DictMerge(DictMerge(document.metadata, chunk.metadata),
              [document_source |-> chunk.document_source,
               chunk_index |-> chunk.chunk_index,
               chunk_size |-> chunk.chunk_size,
               chunk_overlap |-> chunk.chunk_overlap,
               created_at |-> chunk.created_at])

\* combined_metadata of add_documents
CombinedMetadata(document, chunk) ==
    DictMerge(DictMerge(document.metadata, chunk.metadata),
              [document_source |-> chunk.document_source,
               chunk_index |-> chunk.chunk_index,
               chunk_size |-> chunk.chunk_size,
               chunk_overlap |-> chunk.chunk_overlap,
               document_hash |-> document.content_hash,
               chunk_hash |-> chunk.content_hash,
               created_at |-> chunk.created_at])

\* what add_documents appends to ids / contents / metadatas for one chunk
Record(document, chunk) ==
    [id |-> chunk.chunk_id, document |-> chunk.content,
     metadata |-> CombinedMetadata(document, chunk)]

\* the inner loop of add_documents: the records of the chunks that are not skipped
RECURSIVE EmitChunks(_, _, _, _, _)
EmitChunks(document, chunks, idx, fails, k) ==
    IF k > Len(chunks) THEN <<>>
    ELSE (IF _is_chunk_duplicate(idx, chunks[k].content_hash, k \in fails)
          THEN <<>>
          ELSE <<Record(document, chunks[k])>>)
         \o EmitChunks(document, chunks, idx, fails, k + 1)

\* what add_documents logs for one document: the duplicate checks and the chunking
DocumentLog(document, chunks, idx, docFails, fails) ==
    LET dup == _is_document_duplicate(idx, document.content_hash, docFails)
    IN  [kind |-> "document",
         source |-> document.source,
         metadata |-> document.metadata,
         content |-> document.content,
         content_hash |-> document.content_hash,
         lookup |-> Lookup(idx, "document_hash", document.content_hash, docFails),
         chunked |-> ~dup,
         chunks |-> IF dup THEN <<>>
                    ELSE [k \in 1..Len(chunks) |->
                            [chunk_id |-> chunks[k].chunk_id,
                             chunk_index |-> chunks[k].chunk_index,
                             content |-> chunks[k].content,
                             chunk_hash |-> chunks[k].content_hash,
                             created_at |-> chunks[k].created_at,
                             lookup |-> Lookup(idx, "chunk_hash",
                                               chunks[k].content_hash, k \in fails),
                             emitted |-> ~_is_chunk_duplicate(
                                             idx, chunks[k].content_hash, k \in fails)]]]

\* one iteration of "for doc in documents": what it appends to the batch
ProcessOne(document, chunks, idx, docFails, fails) ==
    IF _is_document_duplicate(idx, document.content_hash, docFails)
    THEN <<>>
    ELSE EmitChunks(document, chunks, idx, fails, 1)

----------------------------------------------------------------------------
(* Spec: /api/import calls over a small set of files, one call at a time *)

P1 == <<"p", ".", "t", "x", "t">>
P2 == <<"q", ".", "m", "d">>
Paths == {P1, P2}

\* the file contents of the model: "a b", "a a" and " a"
FileTexts == {<<"a", " ", "b">>, <<"a", " ", "a">>, <<" ", "a">>}

Handlers == {1, 2}

\* an optional request field: <<>> is None, <<v>> a supplied value
Requests ==
    [source : Paths,
     source_type : {"file"},
     chunk_size : {<<>>, <<2>>},
     chunk_overlap : {<<>>, <<0>>}]

\* request.field or default
OrDefault(field, default) ==
    IF field # <<>> /\ field[1] # 0 THEN field[1] ELSE default

IdleCall ==
    [pc |-> "idle", request |-> <<>>, cm |-> <<>>, documents |-> <<>>, i |-> 0,
     batch |-> <<>>, log |-> <<>>, resp |-> <<>>]

\* the chunker variables while the pipeline runs
ChunkIdle ==
    /\ content = <<>>
    /\ chunk_size = 1
    /\ chunk_overlap = 0
    /\ w = WordLoopInit
    /\ c = CharLoopInit

Init ==
    /\ ChunkIdle
    /\ fs \in [Paths -> [content : FileTexts, mtime : {0}]]
    /\ config \in [chunk_size : 1..MaxCfgChunkSize, chunk_overlap : {1}]
    /\ index = <<>>
    /\ now = 0
    /\ calls = [p \in Handlers |-> IdleCall]
    /\ runs = <<>>
    /\ HashIdle
    /\ ThermalIdle

\* import_content up to the call of add_documents: the ContentManager is built
\* from the request's overrides and the file is ingested
BeginImport(p, request) ==
    /\ calls[p].pc = "idle"
    /\ now < MaxCalls
    /\ now' = now + 1
    /\ LET size == OrDefault(request.chunk_size, config.chunk_size)
           overlap == OrDefault(request.chunk_overlap, config.chunk_overlap)
           cm == [chunk_size |-> size, chunk_overlap |-> overlap]
           documents == ingest_file(request.source, fs[request.source],
                                    cm.chunk_size, cm.chunk_overlap)
       IN  calls' = [calls EXCEPT ![p] =
                        [pc |-> "adding", request |-> request, cm |-> cm,
                         documents |-> documents,
                         i |-> 1, batch |-> <<>>, log |-> <<>>, resp |-> <<>>]]
    /\ UNCHANGED <<fs, config, index, runs>>
    /\ UNCHANGED chunkVars
    /\ UNCHANGED hashVars
    /\ UNCHANGED thermalVars

\* add_documents: one iteration of "for doc in documents"; every lookup may raise
ProcessDocument(p, docFails, fails) ==
    /\ calls[p].pc = "adding"
    /\ calls[p].i <= Len(calls[p].documents)
    /\ LET document == ToDocument(calls[p].documents[calls[p].i], now)
           chunks == _chunk_document(document, config.chunk_size, config.chunk_overlap, now)
       IN  /\ fails \subseteq 1..Len(chunks)
           /\ calls' = [calls EXCEPT
                  ![p].batch = @ \o ProcessOne(document, chunks, index, docFails, fails),
                  ![p].log = Append(@, DocumentLog(document, chunks, index, docFails, fails)),
                  ![p].i = @ + 1]
    /\ UNCHANGED <<fs, config, index, now, runs>>
    /\ UNCHANGED chunkVars
    /\ UNCHANGED hashVars
    /\ UNCHANGED thermalVars

\* documents_processed reporting the number of records added
ResponseCountsAdded(call, status) ==
    IF status = "success"
    THEN [status |-> "success",
          documents_processed |-> Len(call.batch),
          documents_added |-> Len(call.batch),
          source |-> call.request.source,
          source_type |-> call.request.source_type]
    ELSE [status |-> "error",
          source |-> call.request.source,
          source_type |-> call.request.source_type]

Response(call, status) ==
    IF status = "success"
    THEN [status |-> "success",
          documents_processed |-> Len(call.documents),
          documents_added |-> Len(call.batch),
          source |-> call.request.source,
          source_type |-> call.request.source_type]
    ELSE [status |-> "error",
          source |-> call.request.source,
          source_type |-> call.request.source_type]

\* the batch add replacing what the index held
FinishImportOverwrite(p, addFails) ==
    /\ calls[p].pc = "adding"
    /\ calls[p].i > Len(calls[p].documents)
    /\ ~addFails
    /\ index' = calls[p].batch
    /\ calls' = [calls EXCEPT ![p].pc = "idle",
                              ![p].resp = Response(calls[p], "success")]
    /\ UNCHANGED <<fs, config, now, runs>>
    /\ UNCHANGED chunkVars
    /\ UNCHANGED hashVars
    /\ UNCHANGED thermalVars

\* the batch add leaving out the records whose chunk_hash the index holds by then
FinishImportRecheck(p, addFails) ==
    /\ calls[p].pc = "adding"
    /\ calls[p].i > Len(calls[p].documents)
    /\ ~addFails
    /\ index' = index \o SelectSeq(calls[p].batch,
                                   LAMBDA r : ~IndexHas(index, "chunk_hash",
                                                        r.metadata.chunk_hash))
    /\ calls' = [calls EXCEPT
           ![p].pc = "idle",
           ![p].log = IF calls[p].batch = <<>> THEN @
                      ELSE Append(@, [kind |-> "added", n |-> Len(calls[p].batch)]),
           ![p].resp = Response(calls[p], "success")]
    /\ UNCHANGED <<fs, config, now, runs>>
    /\ UNCHANGED chunkVars
    /\ UNCHANGED hashVars
    /\ UNCHANGED thermalVars

\* add_documents after the loop (the batch add, which may raise) and the
\* response of import_content
FinishImport(p, addFails) ==
    /\ calls[p].pc = "adding"
    /\ calls[p].i > Len(calls[p].documents)
    /\ IF calls[p].batch = <<>>
       THEN /\ ~addFails
            /\ UNCHANGED index
            /\ calls' = [calls EXCEPT ![p].pc = "idle",
                                      ![p].resp = Response(calls[p], "success")]
       ELSE IF addFails
       THEN /\ UNCHANGED index
            /\ calls' = [calls EXCEPT
                   ![p].pc = "idle",
                   ![p].log = Append(@, [kind |-> "add_failed", n |-> Len(calls[p].batch)]),
                   ![p].resp = Response(calls[p], "error")]
       ELSE /\ index' = index \o calls[p].batch
            /\ calls' = [calls EXCEPT
                   ![p].pc = "idle",
                   ![p].log = Append(@, [kind |-> "added", n |-> Len(calls[p].batch)]),
                   ![p].resp = Response(calls[p], "success")]
    /\ UNCHANGED <<fs, config, now, runs>>
    /\ UNCHANGED chunkVars
    /\ UNCHANGED hashVars
    /\ UNCHANGED thermalVars

Next ==
    \/ \E request \in Requests : BeginImport(1, request)
    \/ \E docFails \in BOOLEAN, fails \in SUBSET (1..MaxLen) :
           ProcessDocument(1, docFails, fails)
    \/ \E addFails \in BOOLEAN : FinishImport(1, addFails)

Spec == Init /\ [][Next]_vars

----------------------------------------------------------------------------
(* SpecHash: a source is stored with its hashes, edited, and checked for change *)

HashFields == {"source", "title", "timestamp", "content"}

SourceTuples ==
    [source : TextsUpTo({"a", "|"}, MaxFieldLen),
     title : TextsUpTo({"a", "|"}, MaxFieldLen),
     timestamp : {IsoFormat(0), IsoFormat(1)},
     content : TextsUpTo({"a", " "}, MaxFieldLen)]

\* every content hash the pipeline computes for a text, and the source hash
HashesOf(s) ==
    [content_hash |-> calculate_content_hash(s.content),
     document_hash |-> NewDocument(s.source, s.content, EmptyDict, 0).content_hash,
     chunk_hash |->
         NewDocumentChunk(<<>>, s.source, s.content, 0, 0, 0, EmptyDict, 0).content_hash,
     metadata_hash |-> _extract_metadata(s.source, s.content, 0).content_hash,
     source_hash |-> calculate_source_hash(s.source, s.title, s.timestamp, s.content)]

\* the fields in which two sources differ
DiffFields(s, t) == {f \in HashFields : s[f] # t[f]}

InitHash ==
    /\ ChunkIdle
    /\ PipeIdle
    /\ ThermalIdle
    /\ src \in SourceTuples
    /\ stored = [fields |-> src, hashes |-> HashesOf(src)]
    /\ verdict = <<>>

\* the source changes in one field (at most two fields away from what is stored)
EditField(f, v) ==
    /\ v # src[f]
    /\ src' = [src EXCEPT ![f] = v]
    /\ src' \in SourceTuples
    /\ Cardinality(DiffFields(src', stored.fields)) <= 2
    /\ verdict' = <<>>
    /\ UNCHANGED stored
    /\ UNCHANGED chunkVars
    /\ UNCHANGED pipeVars
    /\ UNCHANGED thermalVars

\* check_source_changed and check_content_changed against the stored hashes,
\* check_source_changed on what _extract_metadata returns for the source as a
\* file, and the content hashes of the source as it is now
CheckChanged ==
    /\ verdict = <<>>
    /\ verdict' =
           [source_changed |->
                check_source_changed(src.source, src.title, src.timestamp, src.content,
                                     stored.hashes.source_hash),
            content_changed |->
                check_content_changed(src.source, src.content, stored.hashes.content_hash),
            metadata_changed |->
                LET metadata == _extract_metadata(src.source, src.content, 0)
                IN  check_source_changed(metadata.source, metadata.title,
                                         metadata.timestamp, src.content,
                                         metadata.source_hash),
            hashes |-> HashesOf(src)]
    /\ UNCHANGED <<src, stored>>
    /\ UNCHANGED chunkVars
    /\ UNCHANGED pipeVars
    /\ UNCHANGED thermalVars

\* the source is ingested again: its fields and hashes are stored
StoreSource ==
    /\ stored.fields # src
    /\ stored' = [fields |-> src, hashes |-> HashesOf(src)]
    /\ verdict' = <<>>
    /\ UNCHANGED src
    /\ UNCHANGED chunkVars
    /\ UNCHANGED pipeVars
    /\ UNCHANGED thermalVars

NextHash ==
    \/ \E f \in HashFields, v \in TextsUpTo({"a", "|", " ", "0", "1"}, MaxFieldLen) :
           EditField(f, v)
    \/ CheckChanged
    \/ StoreSource

SpecHash == InitHash /\ [][NextHash]_vars

ContentHashKinds == {"content_hash", "document_hash", "chunk_hash", "metadata_hash"}

\* C6: for all texts A and B and every content hash the pipeline computes
\* (Document, DocumentChunk, calculate_content_hash, the extracted metadata),
\* content_hash(A) = content_hash(B) exactly when A.strip() = B.strip().
C6_ContentHashNormalised ==
    verdict # <<>> =>
        \A k \in ContentHashKinds :
            (verdict.hashes[k] = stored.hashes[k])
                <=> (Strip(src.content) = Strip(stored.fields.content))

\* C7: changing exactly one of source, title, timestamp, content and holding the
\* other three fixed changes the source hash (check_source_changed reports a
\* change); the content is not stripped, so an edit of only the content's leading
\* or trailing whitespace changes it too.
C7_SourceHashSensitive ==
    (verdict # <<>> /\ Cardinality(DiffFields(src, stored.fields)) = 1) =>
        /\ verdict.source_changed
        /\ verdict.hashes.source_hash # stored.hashes.source_hash

C7_Witness ==
    /\ verdict # <<>>
    /\ DiffFields(src, stored.fields) = {"content"}
    /\ Strip(src.content) = Strip(stored.fields.content)
    /\ verdict.source_changed

----------------------------------------------------------------------------
(* Claims about the import pipeline (Spec) *)

\* the entries add_documents logged for documents, in a call's log
DocEntries(call) == {k \in 1..Len(call.log) : call.log[k].kind = "document"}

\* handler p takes one iteration of "for doc in documents" in this step
ProcessStep(p) ==
    /\ calls[p].pc = "adding"
    /\ calls'[p].pc = "adding"
    /\ calls'[p].i = calls[p].i + 1

\* the log entry that iteration wrote
NewEntry(p) == calls'[p].log[Len(calls'[p].log)]

\* C8 as stated: two files with identical content and different paths get the
\* same content_hash, different source_hash values, and chunk ids whose source
\* prefix differs, each being sha256(the file's own path)[:8].
C8_SamePathPrefix ==
    \A p \in Handlers : \A k \in DocEntries(calls[p]) : \A r \in 1..Len(index) :
        LET e == calls[p].log[k]
            mine == e.metadata.source
            other == index[r].metadata.source
        IN  (mine # other /\ fs[mine].content = fs[other].content) =>
                /\ e.metadata.content_hash = index[r].metadata.content_hash
                /\ e.metadata.source_hash # index[r].metadata.source_hash
                /\ \A j \in 1..Len(e.chunks) :
                       /\ e.chunks[j].chunk_id.source_hash # index[r].id.source_hash
                       /\ e.chunks[j].chunk_id.source_hash = Hex8(Sha256(mine))

\* C9 as stated: whenever the index holds a record tagged with the document's
\* content_hash when add_documents processes it, the document is not chunked, none
\* of its chunks is emitted, and the loop goes on to the next document.
C9_AsStated ==
    [][\A p \in Handlers :
          (/\ calls[p].pc = "adding"
           /\ calls[p].i <= Len(calls[p].documents)
           /\ calls'[p] # calls[p]
           /\ IndexHas(index, "document_hash",
                       ToDocument(calls[p].documents[calls[p].i], now).content_hash))
          => /\ ProcessStep(p)
             /\ calls'[p].batch = calls[p].batch
             /\ ~NewEntry(p).chunked]_vars

\* C9 (amended): whenever the index holds a record tagged with the document's
\* content_hash and the lookup does not raise, the lookup reports it, the document
\* is not chunked, none of its chunks is emitted and the loop goes on to the next
\* document; a lookup that raises is taken as "not a duplicate" and the document
\* is chunked as if it were new.  A document is skipped only for a reported hit.
C9_DocumentDuplicate ==
    /\ [][\A p \in Handlers :
            (/\ calls[p].pc = "adding"
             /\ calls[p].i <= Len(calls[p].documents)
             /\ calls'[p] # calls[p])
            => LET h == ToDocument(calls[p].documents[calls[p].i], now).content_hash
               IN  /\ ProcessStep(p)
                   /\ NewEntry(p).content_hash = h
                   /\ NewEntry(p).lookup = "hit" =>
                          (IndexHas(index, "document_hash", h)
                           /\ calls'[p].batch = calls[p].batch
                           /\ ~NewEntry(p).chunked /\ NewEntry(p).chunks = <<>>)
                   /\ (IndexHas(index, "document_hash", h) /\ NewEntry(p).lookup # "error")
                          => NewEntry(p).lookup = "hit"
                   /\ NewEntry(p).lookup # "hit" => NewEntry(p).chunked]_vars
    /\ [](\A p \in Handlers :
            (calls[p].resp # <<>> /\ calls[p].batch = <<>>)
                => calls[p].resp.status = "success")

\* a duplicate document was skipped, the next document was still processed and
\* the call succeeded
C9_Witness ==
    \E k \in DocEntries(calls[1]) :
        /\ calls[1].log[k].lookup = "hit"
        /\ k + 1 \in DocEntries(calls[1])
        /\ calls[1].log[k + 1].chunked
        /\ calls[1].resp # <<>>
        /\ calls[1].resp.status = "success"

\* the chunks whose lookup did not report a record, in the order a call's log
\* holds them, each with the entry of its document
RECURSIVE NotReported(_, _)
NotReported(entries, k) ==
    IF k > Len(entries) THEN <<>>
    ELSE (IF entries[k].kind = "document"
          THEN LET kept == SelectSeq(entries[k].chunks, LAMBDA ch : ch.lookup # "hit")
               IN  [j \in 1..Len(kept) |-> [entry |-> entries[k], chunk |-> kept[j]]]
          ELSE <<>>)
         \o NotReported(entries, k + 1)

\* the metadata of an emitted record is the document's and the chunk's, merged
MergedMetadata(record, entry, chunk) ==
    /\ \A key \in (DOMAIN entry.metadata) \ {"chunk_index"} :
           key \in DOMAIN record.metadata /\ record.metadata[key] = entry.metadata[key]
    /\ record.metadata.document_source = entry.source
    /\ record.metadata.document_hash = entry.content_hash
    /\ record.metadata.chunk_hash = chunk.chunk_hash
    /\ record.metadata.chunk_index = chunk.chunk_index
    /\ record.metadata.created_at = chunk.created_at
    /\ record.document = chunk.content

\* C10: every chunk of a non-duplicate document is skipped exactly when the
\* lookup for its chunk_hash reports an existing record (and it reports one only
\* if the index holds one); with no record, or a lookup that raised, the chunk is
\* emitted with the merged document and chunk metadata and its id is returned;
\* when every chunk is skipped collection.add is not invoked and the call succeeds.
C10_ChunkDuplicate ==
    /\ [](\A p \in Handlers :
            /\ \A k \in DocEntries(calls[p]) : \A j \in 1..Len(calls[p].log[k].chunks) :
                   LET e == calls[p].log[k]
                       ch == e.chunks[j]
                   IN  ch.emitted <=> ch.lookup # "hit"
            /\ LET kept == NotReported(calls[p].log, 1)
               IN  /\ Len(calls[p].batch) = Len(kept)
                   /\ \A r \in 1..Len(kept) :
                          /\ calls[p].batch[r].id = kept[r].chunk.chunk_id
                          /\ MergedMetadata(calls[p].batch[r], kept[r].entry, kept[r].chunk)
                   /\ (calls[p].resp # <<>> /\ calls[p].resp.status = "success")
                          => calls[p].resp.documents_added = Len(kept))
    /\ [][\A p \in Handlers :
            ProcessStep(p) =>
                \A j \in 1..Len(NewEntry(p).chunks) :
                    LET ch == NewEntry(p).chunks[j]
                    IN  /\ ch.lookup = "hit" => IndexHas(index, "chunk_hash", ch.chunk_hash)
                        /\ ch.lookup = "miss" => ~IndexHas(index, "chunk_hash", ch.chunk_hash)]_vars
    /\ [][\A p \in Handlers :
            (calls[p].pc = "adding" /\ calls'[p].pc = "idle" /\ calls[p].batch = <<>>)
                => /\ index' = index
                   /\ calls'[p].log = calls[p].log
                   /\ calls'[p].resp.status = "success"
                   /\ calls'[p].resp.documents_added = 0]_vars

\* in one document a chunk was skipped for a reported hit and another chunk,
\* whose lookup raised, was emitted
C10_Witness ==
    \E k \in DocEntries(calls[1]) :
        \E j1, j2 \in 1..Len(calls[1].log[k].chunks) :
            /\ calls[1].log[k].chunks[j1].lookup = "hit"
            /\ ~calls[1].log[k].chunks[j1].emitted
            /\ calls[1].log[k].chunks[j2].lookup = "error"
            /\ calls[1].log[k].chunks[j2].emitted
            /\ Len(calls[1].batch) = 1

----------------------------------------------------------------------------
(* SpecReingest: a client imports files one call after the other and keeps    *)
(* each response; the index answers every lookup and starts from what an      *)
(* earlier import left in it; files may be edited between the calls           *)

\* the loop of add_documents over an index that answers every lookup: the
\* records it collects from document k on
RECURSIVE CollectRecords(_, _, _, _, _)
CollectRecords(documents, idx, cfg, t, k) ==
    IF k > Len(documents) THEN <<>>
    ELSE LET document == ToDocument(documents[k], t)
             chunks == _chunk_document(document, cfg.chunk_size, cfg.chunk_overlap, t)
         IN  ProcessOne(document, chunks, idx, FALSE, {})
                 \o CollectRecords(documents, idx, cfg, t, k + 1)

\* the index as an earlier import of one of the files left it, or empty
PriorIndexes(files, cfg) ==
    {<<>>} \cup
    {CollectRecords(ingest_file(p, files[p], cfg.chunk_size, cfg.chunk_overlap),
                    <<>>, cfg, 0, 1) : p \in Paths}

\* what the client keeps of a finished call: the request, the response and the
\* source_hash the ingestion computed
Finished(call) ==
    [request |-> call.request, resp |-> call.resp,
     source_hash |-> call.documents[1].metadata.source_hash]

\* the client uploads twice
Uploads == 2

InitReingest ==
    /\ ChunkIdle
    /\ HashIdle
    /\ ThermalIdle
    /\ fs \in [Paths -> [content : FileTexts, mtime : {0}]]
    /\ config \in [chunk_size : 1..MaxCfgChunkSize, chunk_overlap : {1}]
    /\ index \in PriorIndexes(fs, config)
    /\ now = 0
    /\ calls = [p \in Handlers |-> IdleCall]
    /\ runs = <<>>

\* the client posts a request once it has kept the response of the call before
PostImport(request) ==
    /\ Len(runs) = now
    /\ now < Uploads
    /\ BeginImport(1, request)

\* the client keeps the response of the call that has just finished
KeepResponse ==
    /\ calls[1].pc = "idle"
    /\ Len(runs) < now
    /\ runs' = Append(runs, Finished(calls[1]))
    /\ UNCHANGED <<fs, config, index, now, calls>>
    /\ UNCHANGED chunkVars
    /\ UNCHANGED hashVars
    /\ UNCHANGED thermalVars

\* the file of the last call is edited (or only touched) once before the next call
ModifyFile(path, file) ==
    /\ calls[1].pc = "idle"
    /\ Len(runs) = now
    /\ now >= 1
    /\ now < Uploads
    /\ path = runs[now].request.source
    /\ _extract_metadata(path, fs[path].content, fs[path].mtime).source_hash
           = runs[now].source_hash
    /\ file # fs[path]
    /\ fs' = [fs EXCEPT ![path] = file]
    /\ UNCHANGED <<config, index, now, calls, runs>>
    /\ UNCHANGED chunkVars
    /\ UNCHANGED hashVars
    /\ UNCHANGED thermalVars

NextReingest ==
    \/ \E request \in Requests : PostImport(request)
    \/ ProcessDocument(1, FALSE, {})
    \/ \E addFails \in BOOLEAN : FinishImport(1, addFails)
    \/ KeepResponse
    \/ \E path \in Paths, file \in [content : FileTexts, mtime : {0, 1}] :
           ModifyFile(path, file)

SpecReingest == InitReingest /\ [][NextReingest]_vars

\* the call before the one handler 1 is in, as the client kept it
PrevCall == runs[now - 1]

\* handler 1 is in a call that repeats the call before: the same request over a
\* file whose source_hash is what that call computed
Repeated ==
    /\ now >= 2
    /\ Len(runs) >= now - 1
    /\ calls[1].request = PrevCall.request
    /\ calls[1].documents[1].metadata.source_hash = PrevCall.source_hash

\* C11: once an import of a file has completed, the same import of the unmodified
\* file, made right after it over an index that remembers every emitted record,
\* succeeds with documents_added = 0 (nothing is emitted, every chunk is a
\* duplicate), which is never more than the first import added, whatever the
\* index held before.
C11_IdempotentReingest ==
    (/\ Repeated
     /\ PrevCall.resp.status = "success"
     /\ calls[1].i > Len(calls[1].documents))
    => /\ calls[1].batch = <<>>
       /\ \A k \in DocEntries(calls[1]) : \A j \in 1..Len(calls[1].log[k].chunks) :
              ~calls[1].log[k].chunks[j].emitted
       /\ calls[1].resp # <<>> =>
              /\ calls[1].resp.status = "success"
              /\ calls[1].resp.documents_added = 0
              /\ calls[1].resp.documents_added <= PrevCall.resp.documents_added

\* the first import added records to an index that was not empty, and the
\* repeated import reported no addition
C11_Witness ==
    /\ Repeated
    /\ PrevCall.resp.status = "success"
    /\ PrevCall.resp.documents_added >= 1
    /\ \E r \in 1..Len(index) : index[r].metadata.created_at = 0
    /\ calls[1].resp # <<>>
    /\ calls[1].resp.documents_added = 0
    /\ calls[1].resp.documents_processed >= 2

\* C20: given the source_hash stored for a source by the call before, when the
\* freshly computed source_hash equals it (check_source_changed returns False)
\* the re-ingestion performs no chunking and emits nothing; when the two differ
\* (check_source_changed returns True) the full pipeline runs.
C20_UnchangedSkipsChunking ==
    (/\ now >= 2
     /\ Len(runs) >= now - 1
     /\ calls[1].request # <<>>
     /\ calls[1].request.source = PrevCall.request.source)
    => LET path == calls[1].request.source
           changed == check_source_changed(
                          path, ExtractTitle(path, fs[path].content),
                          IsoFormat(fs[path].mtime), fs[path].content,
                          PrevCall.source_hash)
       IN  /\ ~changed =>
                  /\ calls[1].documents = <<>>
                  /\ \A k \in DocEntries(calls[1]) : ~calls[1].log[k].chunked
                  /\ calls[1].batch = <<>>
           /\ changed => calls[1].documents # <<>>

----------------------------------------------------------------------------
(* SpecConc: two server workers, each serving one /api/import call over the   *)
(* same index, their steps interleaved; every lookup and write succeeds       *)

\* the file contents of the concurrent model: "a b", " a" and "b"
ConcTexts == {<<"a", " ", "b">>, <<" ", "a">>, <<"b">>}

InitConc ==
    /\ ChunkIdle
    /\ HashIdle
    /\ ThermalIdle
    /\ fs \in [Paths -> [content : ConcTexts, mtime : {0}]]
    /\ config \in [chunk_size : 1..MaxCfgChunkSize, chunk_overlap : {1}]
    /\ index = <<>>
    /\ now = 0
    /\ calls = [p \in Handlers |-> IdleCall]
    /\ runs = <<>>

\* worker p receives its request
Accept(p, request) ==
    /\ calls[p].request = <<>>
    /\ BeginImport(p, request)

NextConc ==
    \E p \in Handlers :
        \/ \E request \in Requests : Accept(p, request)
        \/ ProcessDocument(p, FALSE, {})
        \/ FinishImport(p, FALSE)

SpecConc == InitConc /\ [][NextConc]_vars

\* both workers have answered
BothDone == \A p \in Handlers : calls[p].resp # <<>>

\* C12: the duplicate check and the write are separate steps: a worker decides on
\* the index as it is when it checks, whatever the other worker has collected, and
\* later writes its whole batch whatever the other worker wrote meanwhile; so two
\* concurrent imports of an identical new document can both find it new and both
\* emit the same chunks.
C12_CheckThenWrite ==
    /\ [][\A p \in Handlers :
            ProcessStep(p) =>
                LET h == NewEntry(p).content_hash
                IN  NewEntry(p).chunked <=> ~IndexHas(index, "document_hash", h)]_vars
    /\ [][\A p \in Handlers :
            (calls[p].pc = "adding" /\ calls'[p].pc = "idle")
                => index' = index \o calls[p].batch]_vars

\* both workers imported the same file, both found its document new after both
\* had begun, and the index holds the same chunk twice
C12_Witness ==
    /\ BothDone
    /\ calls[1].request.source = calls[2].request.source
    /\ \A p \in Handlers :
           /\ calls[p].log[1].lookup = "miss"
           /\ calls[p].log[1].chunks # <<>>
           /\ calls[p].log[1].chunks[1].emitted
           /\ calls[p].log[1].chunks[1].created_at = 2
           /\ calls[p].resp.documents_added >= 1
    /\ calls[1].log[1].content_hash = calls[2].log[1].content_hash
    /\ \E r1, r2 \in 1..Len(index) :
           /\ r1 # r2
           /\ index[r1].id = index[r2].id
           /\ index[r1].metadata.chunk_hash = index[r2].metadata.chunk_hash

\* the documents ingest_file hands to add_documents for a request
DocsOf(request) ==
    ingest_file(request.source, fs[request.source],
                OrDefault(request.chunk_size, config.chunk_size),
                OrDefault(request.chunk_overlap, config.chunk_overlap))

\* the index after the call of ra and then the call of rb, run one after the other
SerialIndex(ra, rb) ==
    LET first == CollectRecords(DocsOf(ra), <<>>, config, 0, 1)
    IN  first \o CollectRecords(DocsOf(rb), first, config, 0, 1)

\* a record without its creation timestamps
Untimed(record) ==
    [id |-> record.id, document |-> record.document,
     metadata |-> [k \in (DOMAIN record.metadata) \ {"created_at", "document_created_at"}
                       |-> record.metadata[k]]]

RecordSet(idx) == {Untimed(idx[k]) : k \in 1..Len(idx)}

\* the index holds what one of the two serial orders leaves
SerialOutcome ==
    RecordSet(index) \in {RecordSet(SerialIndex(calls[1].request, calls[2].request)),
                          RecordSet(SerialIndex(calls[2].request, calls[1].request))}

\* the content hashes of the documents and of the chunks of a request
DocHashesOf(request) ==
    {ToDocument(DocsOf(request)[k], 0).content_hash : k \in 1..Len(DocsOf(request))}
ChunkHashesOf(request) ==
    UNION {LET document == ToDocument(DocsOf(request)[k], 0)
               chunks == _chunk_document(document, config.chunk_size,
                                         config.chunk_overlap, 0)
           IN  {chunks[j].content_hash : j \in 1..Len(chunks)} :
           k \in 1..Len(DocsOf(request))}

\* C13 as stated: for any two concurrent calls on different sources, every
\* interleaving leaves the index with the same set of records as running the two
\* calls one after the other in some order.
C13_AsStated ==
    (BothDone /\ calls[1].request.source # calls[2].request.source) => SerialOutcome

\* C13 (amended): for any two concurrent calls on different sources whose
\* documents share no content hash and whose chunks share no content hash, with
\* every lookup and write succeeding, every interleaving leaves the index with the
\* same set of records, up to their creation timestamps, as running the two calls
\* one after the other in some order.
C13_DisjointSources ==
    (/\ BothDone
     /\ calls[1].request.source # calls[2].request.source
     /\ DocHashesOf(calls[1].request) \cap DocHashesOf(calls[2].request) = {}
     /\ ChunkHashesOf(calls[1].request) \cap ChunkHashesOf(calls[2].request) = {})
    => SerialOutcome

\* two calls over different files without common content ran interleaved (each
\* processed its document after both had begun) and both wrote records
C13_Witness ==
    /\ BothDone
    /\ calls[1].request.source # calls[2].request.source
    /\ DocHashesOf(calls[1].request) \cap DocHashesOf(calls[2].request) = {}
    /\ ChunkHashesOf(calls[1].request) \cap ChunkHashesOf(calls[2].request) = {}
    /\ \A p \in Handlers : calls[p].resp.documents_added >= 1
    /\ \A r \in 1..Len(index) : index[r].metadata.created_at = 2
    /\ Len(index) >= 2

----------------------------------------------------------------------------
(* Claims about chunk_index (Spec) *)

\* the chunks of a logged document that were emitted, in order
EmittedOf(entry) == SelectSeq(entry.chunks, LAMBDA ch : ch.emitted)

\* the chunk dicts of ingest_file and the chunks of _chunk_document are numbered
\* 0..n-1 in order
NumberedFromZero ==
    \A p \in Handlers :
        /\ \A k \in 1..Len(calls[p].documents) :
               /\ calls[p].documents[k].metadata.chunk_index = k - 1
               /\ calls[p].documents[k].metadata.chunk_count = Len(calls[p].documents)
        /\ \A k \in DocEntries(calls[p]) : \A j \in 1..Len(calls[p].log[k].chunks) :
               calls[p].log[k].chunks[j].chunk_index = j - 1

\* C19 as stated: chunk_index values are 0-based, strictly increasing and
\* gap-free in both chunking variants, and the chunk records handed to the index
\* for one document keep that property.
C19_AsStated ==
    /\ NumberedFromZero
    /\ \A p \in Handlers : \A k \in DocEntries(calls[p]) :
           LET emitted == EmittedOf(calls[p].log[k])
           IN  \A j \in 1..Len(emitted) : emitted[j].chunk_index = j - 1

\* C19 (amended): chunk_index values are 0-based, strictly increasing and
\* gap-free in both chunking variants, also when the character-count variant
\* drops an empty slice; the records handed to the index for one document carry
\* the chunk_index their chunks were given, strictly increasing in emission order,
\* with a gap wherever a chunk was skipped as a duplicate.
C19_ChunkIndexOrder ==
    /\ NumberedFromZero
    /\ \A p \in Handlers :
           LET kept == NotReported(calls[p].log, 1)
           IN  /\ Len(kept) = Len(calls[p].batch)
               /\ \A r \in 1..Len(kept) :
                      /\ calls[p].batch[r].metadata.chunk_index = kept[r].chunk.chunk_index
                      /\ kept[r].chunk.chunk_index \in 0..(Len(kept[r].entry.chunks) - 1)
                      /\ (r < Len(kept) /\ kept[r].entry = kept[r + 1].entry)
                             => calls[p].batch[r].metadata.chunk_index
                                    < calls[p].batch[r + 1].metadata.chunk_index

\* a document lost an empty slice between its two chunks, its first chunk was
\* skipped as a duplicate and its second chunk was emitted with chunk_index 1
C19_Witness ==
    \E k \in DocEntries(calls[1]) :
        /\ config.chunk_size = 1
        /\ Len(calls[1].log[k].content) = 3
        /\ Len(calls[1].log[k].chunks) = 2
        /\ calls[1].log[k].chunks[1].lookup = "hit"
        /\ calls[1].log[k].chunks[2].emitted
        /\ \E r \in 1..Len(calls[1].batch) : calls[1].batch[r].metadata.chunk_index = 1

----------------------------------------------------------------------------
(* SpecDir: one caller ingests a file or a directory tree, through            *)
(* /api/import or through the ContentManager directly, one file per step;     *)
(* files may be missing or unreadable; chunk_size may be 0 or negative        *)

Root == <<"d">>
FileA == <<"d", "/", "a", ".", "t", "x", "t">>
FileB == <<"d", "/", "b", ".", "M", "D">>
FileC == <<"d", "/", "c", ".", "p", "d", "f">>
DirT == <<"d", "/", "t", ".", "m", "d">>
DirS == <<"d", "/", "s">>
FileE == <<"d", "/", "s", "/", "e", ".", "h", "t", "m">>

\* the files that may exist, with what they hold
DirFiles == {FileA, FileB, FileC, FileE}
TextOf(path) ==
    CASE path = FileA -> <<"a", " ", "b">>
      [] path = FileB -> <<"a">>
      [] path = FileC -> <<"b", " ", "b">>
      [] path = FileE -> <<"b">>

\* the trees of the model: the directories d, d/t.md and d/s, any of the files,
\* at most one of them unreadable
Trees ==
    {[p \in {Root, DirT, DirS} \cup present |->
         IF p \in present
         THEN [kind |-> "file", content |-> TextOf(p), mtime |-> 0,
               readable |-> p \notin unreadable]
         ELSE [kind |-> "dir", content |-> <<>>, mtime |-> 0, readable |-> TRUE]] :
     present \in SUBSET DirFiles,
     unreadable \in {u \in SUBSET DirFiles : Cardinality(u) <= 1}}

\* one order in which the entries come out of the file system
Listing == <<FileA, FileB, FileC, DirS, FileE, DirT>>

RECURSIVE Reverse(_)
Reverse(s) == IF s = <<>> THEN <<>> ELSE Append(Reverse(Tail(s)), Head(s))

\* str.lower() on the letters of the model
LowerChar(ch) ==
    CASE ch = "M" -> "m"
      [] ch = "D" -> "d"
      [] OTHER -> ch
Lower(s) == [i \in 1..Len(s) |-> LowerChar(s[i])]

\* supported_extensions of ingest_directory
SupportedExtensions ==
    {<<".", "t", "x", "t">>, <<".", "m", "d">>,
     <<".", "h", "t", "m", "l">>, <<".", "h", "t", "m">>}

\* path.glob("**/*") or path.glob("*"): the entries below the root, at any depth
\* or directly in it
Matches(tree, root, path, recursive) ==
    /\ path \in DOMAIN tree
    /\ StartsWith(path, root \o <<"/">>)
    /\ recursive \/ RFind(path, "/", Len(root) + 1, Len(path)) = -1

Glob(tree, root, recursive, listing) ==
    SelectSeq(listing, LAMBDA path : Matches(tree, root, path, recursive))

\* the filter compared without lower()
QualifiesCaseSensitive(tree, path) ==
    tree[path].kind = "file" /\ Suffix(path) \in SupportedExtensions

\* file_path.is_file() and file_path.suffix.lower() in supported_extensions
Qualifies(tree, path) ==
    tree[path].kind = "file" /\ Lower(Suffix(path)) \in SupportedExtensions

\* the exceptions of the ingestion operations: type, the parts of the message
\* (text before the path, the path, the text of the original failure) and cause
FileNotFound(path) ==
    [type |-> "FileNotFoundError",
     message |-> [text |-> "File not found: ", path |-> path, detail |-> ""],
     cause |-> <<>>]
NotADirectory(path) ==
    [type |-> "NotADirectoryError",
     message |-> [text |-> "Not a directory: ", path |-> path, detail |-> ""],
     cause |-> <<>>]

\* the ValueError carrying only the text of the original failure
ProcessingErrorBare(path, cause) ==
    [type |-> "ValueError",
     message |-> [text |-> "", path |-> <<>>, detail |-> cause],
     cause |-> <<cause>>]

\* raise ValueError(f"Error processing {file_path}: {e}") from e
ProcessingError(path, cause) ==
    [type |-> "ValueError",
     message |-> [text |-> "Error processing ", path |-> path, detail |-> cause],
     cause |-> <<cause>>]

\* ContentManager.ingest_file on any path: the exception it raises, or none
IngestError(tree, path) ==
    IF path \notin DOMAIN tree THEN <<FileNotFound(path)>>
    ELSE IF tree[path].kind = "dir" THEN <<ProcessingError(path, "IsADirectoryError")>>
    ELSE IF ~tree[path].readable THEN <<ProcessingError(path, "PermissionError")>>
    ELSE <<>>

DirRequests ==
    [source : {Root, FileA},
     source_type : {"file", "directory"},
     chunk_size : {<<>>, <<0>>, <<-1>>, <<2>>},
     chunk_overlap : {<<>>}]

IdleDirCall ==
    [pc |-> "idle", via |-> "", request |-> <<>>, recursive |-> TRUE, queue |-> <<>>,
     visited |-> <<>>, documents |-> <<>>, batch |-> <<>>, error |-> <<>>, resp |-> <<>>]

InitDir ==
    /\ ChunkIdle
    /\ HashIdle
    /\ ThermalIdle
    /\ fs \in Trees
    /\ config \in [chunk_size : 1..MaxCfgChunkSize, chunk_overlap : {1}]
    /\ index = <<>>
    /\ now = 0
    /\ calls = [p \in Handlers |-> IdleDirCall]
    /\ runs = <<>>

\* the response of import_content when the ingestion raised
ErrorResponse(request, error) ==
    [status |-> "error", message |-> "Content import failed",
     source |-> request.source, source_type |-> request.source_type,
     error |-> error.message]

\* the call ends with an exception: nothing is returned
Raise(call, error) ==
    [call EXCEPT !.pc = "done", !.queue = <<>>, !.documents = <<>>, !.error = <<error>>,
                 !.resp = IF call.via = "api" THEN ErrorResponse(call.request, error)
                          ELSE <<>>]

\* import_content (via "api", ingest_directory with its default recursive=True)
\* or a direct call of ingest_file / ingest_directory, up to the first file
BeginIngest(via, request, recursive, listing) ==
    /\ calls[1].pc = "idle"
    /\ now = 0
    /\ via = "api" => recursive
    /\ request.source_type = "file" => recursive
    /\ now' = now + 1
    /\ LET call == [IdleDirCall EXCEPT !.via = via, !.request = request,
                                       !.recursive = recursive]
       IN  calls' = [calls EXCEPT ![1] =
               IF request.source_type = "file"
               THEN [call EXCEPT !.pc = "walking", !.queue = <<request.source>>]
               ELSE IF request.source \notin DOMAIN fs \/ fs[request.source].kind # "dir"
               THEN Raise(call, NotADirectory(request.source))
               ELSE [call EXCEPT !.pc = "walking",
                                 !.queue = Glob(fs, request.source, recursive, listing)]]
    /\ UNCHANGED <<fs, config, index, runs>>
    /\ UNCHANGED chunkVars
    /\ UNCHANGED hashVars
    /\ UNCHANGED thermalVars

\* ingest_file on the single path, or one iteration of "for file_path in
\* path.glob(pattern)": a qualifying file is ingested, its exception ends the call
IngestNext ==
    /\ calls[1].pc = "walking"
    /\ calls[1].queue # <<>>
    /\ LET call == calls[1]
           path == Head(call.queue)
           size == OrDefault(call.request.chunk_size, config.chunk_size)
           overlap == OrDefault(call.request.chunk_overlap, config.chunk_overlap)
           rest == [call EXCEPT !.queue = Tail(call.queue)]
       IN  calls' = [calls EXCEPT ![1] =
               IF call.request.source_type = "directory" /\ ~Qualifies(fs, path)
               THEN rest
               ELSE IF IngestError(fs, path) # <<>>
               THEN Raise(call, IngestError(fs, path)[1])
               ELSE [rest EXCEPT !.visited = Append(@, path),
                                 !.documents = @ \o ingest_file(path, fs[path], size, overlap)]]
    /\ UNCHANGED <<fs, config, index, now, runs>>
    /\ UNCHANGED chunkVars
    /\ UNCHANGED hashVars
    /\ UNCHANGED thermalVars

\* the ingestion returns its documents; import_content hands them to
\* add_documents and answers
ReturnDocuments ==
    /\ calls[1].pc = "walking"
    /\ calls[1].queue = <<>>
    /\ LET batch == IF calls[1].via = "api"
                    THEN CollectRecords(calls[1].documents, index, config, now, 1)
                    ELSE <<>>
           call == [calls[1] EXCEPT !.pc = "done", !.batch = batch]
       IN  /\ index' = index \o batch
           /\ calls' = [calls EXCEPT ![1] =
                  [call EXCEPT !.resp = IF call.via = "api"
                                        THEN Response(call, "success") ELSE <<>>]]
    /\ UNCHANGED <<fs, config, now, runs>>
    /\ UNCHANGED chunkVars
    /\ UNCHANGED hashVars
    /\ UNCHANGED thermalVars

NextDir ==
    \/ \E via \in {"api", "direct"}, request \in DirRequests, recursive \in BOOLEAN,
          listing \in {Listing, Reverse(Listing)} :
           BeginIngest(via, request, recursive, listing)
    \/ IngestNext
    \/ ReturnDocuments

SpecDir == InitDir /\ [][NextDir]_vars

----------------------------------------------------------------------------
(* Claims about directory ingestion and errors (SpecDir) *)

\* the files of the tree an ingestion of d has to take: the regular files with
\* an allow-listed extension, d/s/e.htm only in recursive mode
ToIngest(recursive) ==
    (IF recursive THEN {FileA, FileB, FileE} ELSE {FileA, FileB}) \cap DOMAIN fs

\* the call was an ingestion of the directory d and is over
DirDone ==
    /\ calls[1].pc = "done"
    /\ calls[1].request.source_type = "directory"
    /\ calls[1].request.source = Root

SourcesOf(documents) == {documents[k].metadata.source : k \in 1..Len(documents)}

\* C14: when one qualifying file fails during ingest_directory the walk goes on,
\* the chunks of the files that succeeded are still returned and the call does
\* not fail as a whole.
C14_FailureIsolated ==
    (DirDone /\ \E f \in ToIngest(calls[1].recursive) : ~fs[f].readable)
    => /\ SourcesOf(calls[1].documents)
              = {f \in ToIngest(calls[1].recursive) : fs[f].readable}
       /\ calls[1].via = "api" => calls[1].resp.status = "success"

\* C15: ingest_directory ingests exactly the regular files under the root whose
\* lower-cased extension is .txt, .md, .html or .htm, at any depth in recursive
\* mode and directly in the root otherwise; every other entry contributes no
\* chunk.
C15_AllowListed ==
    (DirDone /\ calls[1].error = <<>>)
    => /\ SourcesOf(calls[1].documents) = ToIngest(calls[1].recursive)
       /\ Len(calls[1].visited) = Cardinality(ToIngest(calls[1].recursive))
       /\ \A k \in 1..Len(calls[1].visited) : calls[1].visited[k] \in ToIngest(calls[1].recursive)

\* a non-recursive ingestion of the full tree took d/a.txt and d/b.MD and left
\* out d/c.pdf, d/s/e.htm and the directory d/t.md
C15_Witness ==
    /\ DirDone
    /\ calls[1].error = <<>>
    /\ ~calls[1].recursive
    /\ DirFiles \subseteq DOMAIN fs
    /\ SourcesOf(calls[1].documents) = {FileA, FileB}

\* the number of chunk documents ingestion makes of the files in S
RECURSIVE ChunkDocuments(_, _, _)
ChunkDocuments(S, size, overlap) ==
    IF S = {} THEN 0
    ELSE LET f == CHOOSE x \in S : TRUE
         IN  Len(_chunk_content(fs[f].content, size, overlap))
                 + ChunkDocuments(S \ {f}, size, overlap)

\* C16 as stated: the response's documents_processed of a directory import is
\* the number of qualifying files that were ingested.
C16_AsStated ==
    (DirDone /\ calls[1].via = "api" /\ calls[1].error = <<>>)
    => calls[1].resp.documents_processed = Cardinality(ToIngest(TRUE))

\* C16 (amended): the response's documents_processed of a directory import is
\* the number of chunk documents made of the qualifying files: never fewer than
\* the files, and one per file when no file has more than chunk_size words.
C16_CountsChunkDocuments ==
    (DirDone /\ calls[1].via = "api" /\ calls[1].error = <<>>)
    => LET size == OrDefault(calls[1].request.chunk_size, config.chunk_size)
           overlap == OrDefault(calls[1].request.chunk_overlap, config.chunk_overlap)
           files == ToIngest(TRUE)
           processed == calls[1].resp.documents_processed
       IN  /\ processed = ChunkDocuments(files, size, overlap)
           /\ processed >= Cardinality(files)
           /\ (size >= 1 /\ \A f \in files : Len(Split(fs[f].content)) <= size)
                  => processed = Cardinality(files)

\* a directory import over three qualifying files and the .pdf reported more
\* documents than files
C16_Witness ==
    /\ DirDone
    /\ calls[1].via = "api"
    /\ calls[1].error = <<>>
    /\ DirFiles \subseteq DOMAIN fs
    /\ calls[1].resp.documents_processed = 4

\* C17: a call whose chunk_size is <= 0 is rejected with an error before any
\* work begins: no file is read, no chunk is produced, nothing is written.
C17_InvalidChunkConfig ==
    (/\ calls[1].pc # "idle"
     /\ calls[1].request.chunk_size # <<>>
     /\ calls[1].request.chunk_size[1] <= 0)
    => /\ calls[1].visited = <<>>
       /\ calls[1].documents = <<>>
       /\ index = <<>>
       /\ calls[1].pc = "done" => calls[1].error # <<>>

\* C18: an error of ingestion names the offending source: a missing file gives
\* FileNotFoundError with its path, a failure while processing a file gives
\* ValueError with that file's path and the underlying cause, a root that is not
\* a directory gives NotADirectoryError before any file is visited; whenever an
\* error is raised no document is returned and nothing is written.
C18_ErrorsNameSource ==
    calls[1].pc = "done"
    => LET call == calls[1]
           source == call.request.source
           isFile == call.request.source_type = "file"
           isDir == source \in DOMAIN fs /\ fs[source].kind = "dir"
       IN  /\ (isFile /\ source \notin DOMAIN fs)
                  => /\ call.error # <<>>
                     /\ call.error[1].type = "FileNotFoundError"
                     /\ call.error[1].message.path = source
           /\ (isFile /\ source \in DOMAIN fs /\ (isDir \/ ~fs[source].readable))
                  => /\ call.error # <<>>
                     /\ call.error[1].type = "ValueError"
                     /\ call.error[1].message.path = source
                     /\ call.error[1].cause # <<>>
                     /\ call.error[1].message.detail = call.error[1].cause[1]
           /\ (~isFile /\ ~isDir)
                  => /\ call.error # <<>>
                     /\ call.error[1].type = "NotADirectoryError"
                     /\ call.error[1].message.path = source
                     /\ call.visited = <<>>
           /\ (~isFile /\ isDir /\ call.error # <<>>)
                  => /\ call.error[1].type = "ValueError"
                     /\ call.error[1].message.path \in ToIngest(call.recursive)
                     /\ ~fs[call.error[1].message.path].readable
                     /\ call.error[1].cause # <<>>
                     /\ call.error[1].message.detail = call.error[1].cause[1]
           /\ call.error # <<>>
                  => /\ call.documents = <<>>
                     /\ call.batch = <<>>
                     /\ index = <<>>
                     /\ call.via = "api"
                            => /\ call.resp.status = "error"
                               /\ call.resp.source = source
                               /\ call.resp.error = call.error[1].message

\* a walk ingested a file, then failed on an unreadable one, and the error
\* names that file
C18_Witness ==
    /\ DirDone
    /\ calls[1].visited # <<>>
    /\ calls[1].error # <<>>
    /\ calls[1].error[1].type = "ValueError"
    /\ calls[1].error[1].message.path \in DirFiles
    /\ calls[1].error[1].message.path # calls[1].visited[1]
    /\ calls[1].documents = <<>>

----------------------------------------------------------------------------
(* Further claims about the chunkers (SpecChunk) *)

\* C21 as stated: chunking any document, an empty or whitespace-only one
\* included, gives a non-empty sequence of chunks in both variants.
C21_AsStated ==
    /\ w.pc = "done" => Len(w.chunks) >= 1
    /\ c.pc = "done" => Len(c.chunks) >= 1

\* C21 (amended): _chunk_content gives a non-empty sequence for every content;
\* _chunk_document, which chunks a document on its way to the index, gives an
\* ordered non-empty sequence exactly when the content holds a non-whitespace
\* character, and no chunk for empty or whitespace-only content.
C21_NonEmptyUnlessBlank ==
    /\ w.pc = "done" => Len(w.chunks) >= 1
    /\ c.pc = "done" =>
           /\ Len(c.chunks) >= 1 <=> Strip(content) # <<>>
           /\ \A k \in 1..Len(c.chunks) : c.chunks[k].chunk_index = k - 1

\* whitespace-only content: one chunk of the word-count variant, none of the
\* character-count variant
C21_Witness ==
    /\ content = <<" ", "\n">>
    /\ w.pc = "done" /\ Len(w.chunks) = 1
    /\ c.pc = "done" /\ c.chunks = <<>>

\* C22: for chunk_size >= 1 each chunk of the character-count variant has at most
\* chunk_size characters and records its trimmed length as chunk_size, each chunk
\* of the word-count variant has at most chunk_size words, and the first chunk
\* records chunk_overlap 0 while every later chunk records the configured overlap.
C22_LengthBudget ==
    /\ c.pc = "done" =>
           \A k \in 1..Len(c.chunks) :
               /\ Len(c.chunks[k].content) <= chunk_size
               /\ c.chunks[k].chunk_size = Len(c.chunks[k].content)
               /\ c.chunks[k].chunk_overlap = IF k = 1 THEN 0 ELSE chunk_overlap
    /\ w.pc = "done" =>
           \A k \in 1..Len(w.chunks) : Len(Split(w.chunks[k])) <= chunk_size

C22_Witness ==
    /\ chunk_size = 2 /\ chunk_overlap = 1
    /\ c.pc = "done" /\ Len(c.chunks) >= 2
    /\ c.chunks[1].chunk_size = Len(c.chunks[1].content) /\ c.chunks[1].chunk_overlap = 0
    /\ c.chunks[2].chunk_overlap = 1
    /\ w.pc = "done" /\ Len(w.chunks) >= 2 /\ Len(Split(w.chunks[1])) = 2

\* C23: _chunk_document emits only trimmed, non-empty chunks; a slice that is
\* empty after trimming is dropped without consuming a chunk_index, so empty or
\* whitespace-only content gives zero chunks and content whose length is an exact
\* multiple of chunk_size gives no trailing empty chunk.
C23_TrimmedNonEmpty ==
    c.pc = "done" =>
        /\ \A k \in 1..Len(c.chunks) :
               /\ c.chunks[k].content # <<>>
               /\ Strip(c.chunks[k].content) = c.chunks[k].content
               /\ c.chunks[k].chunk_index = k - 1
        /\ c.chunk_index = Len(c.chunks)
        /\ Strip(content) = <<>> => c.chunks = <<>>
        /\ (content # <<>> /\ Len(content) % chunk_size = 0 /\ c.chunks # <<>>)
               => c.chunks[Len(c.chunks)].content # <<>>

\* "a  b" in slices of one character: the two blank slices are dropped and "b"
\* is chunk 1
C23_Witness ==
    /\ content = <<"a", " ", " ", "b">> /\ chunk_size = 1 /\ chunk_overlap = 0
    /\ c.pc = "done" /\ Len(c.chunks) = 2
    /\ c.chunks[2].content = <<"b">> /\ c.chunks[2].chunk_index = 1

\* some chunk of the sequence lies over position i of the sequence s
CoveredBy(s, i, pieces) ==
    \E k \in 1..Len(pieces) : \E o \in 0..(Len(s) - Len(pieces[k])) :
        /\ SubSeq(s, o + 1, o + Len(pieces[k])) = pieces[k]
        /\ o < i /\ i <= o + Len(pieces[k])

\* C26: for chunk_size >= 1 and chunk_overlap >= 0 every word of the content is
\* in a chunk of _chunk_content and every non-whitespace character is in a chunk
\* of _chunk_document, in the original order inside the chunk; the next chunk
\* never starts after the end of the one before.
C26_NoContentLost ==
    /\ [](w.pc = "done" =>
             \A i \in 1..WordCount :
                 CoveredBy(Split(content), i,
                           [k \in 1..Len(w.chunks) |-> Split(w.chunks[k])]))
    /\ [](c.pc = "done" =>
             \A i \in 1..Len(content) :
                 content[i] \notin Whitespace => CoveredBy(content, i, CharChunkTexts))
    /\ [][(w' # w /\ w'.pc = "loop")
              => w'.start <= MinOf(w.start + chunk_size, WordCount)]_vars
    /\ [][(c' # c /\ c.pc = "loop" /\ c'.pc = "loop")
              => c'.start <= SnapEnd(content, c.start, chunk_size)]_vars

C26_Witness ==
    /\ content = Scenario1 /\ chunk_size = 3 /\ chunk_overlap = 0
    /\ w.pc = "done" /\ Len(w.chunks) = 4
    /\ c.pc = "done" /\ Len(c.chunks) >= 4

----------------------------------------------------------------------------
(* Further claims about the hashes (SpecHash) *)

\* C28: the metadata _extract_metadata returns is self-consistent for every file
\* content: check_source_changed called with the returned source, title and
\* timestamp, the content and the returned source_hash reports no change.
C28_MetadataSelfConsistent ==
    verdict # <<>> => ~verdict.metadata_changed

\* C29: calculate_source_hash distinguishes every pair of distinct (source, title,
\* timestamp, content) tuples, also when a field contains the '|' character.
C29_DistinctTuplesDistinctHash ==
    (verdict # <<>> /\ src # stored.fields) =>
        /\ verdict.source_changed
        /\ verdict.hashes.source_hash # stored.hashes.source_hash

----------------------------------------------------------------------------
(* Further claims about the import pipeline *)

\* the value a request supplies for a field, the default when it has none
Supplied(field, default) == IF field # <<>> THEN field[1] ELSE default

\* C24: the chunk_size and chunk_overlap a request supplies, whatever their
\* value (chunk_overlap = 0 included), are the values the call chunks with; the
\* configured defaults are used only when the field is absent.
C24_OverridesUsed ==
    \A p \in Handlers :
        calls[p].cm # <<>> =>
            /\ calls[p].cm.chunk_size
                   = Supplied(calls[p].request.chunk_size, config.chunk_size)
            /\ calls[p].cm.chunk_overlap
                   = Supplied(calls[p].request.chunk_overlap, config.chunk_overlap)

\* no two records of the sequence share an id or a chunk_hash
PairwiseDistinct(records) ==
    \A i, j \in 1..Len(records) :
        i < j => /\ records[i].id # records[j].id
                 /\ records[i].metadata.chunk_hash # records[j].metadata.chunk_hash

\* C27: within one add_documents call, and after any sequence of sequential calls
\* on an index that stores what is emitted, no two emitted records share a
\* chunk_id and no two share a chunk_hash, also when the same content occurs
\* twice inside one batch.
C27_EmittedDistinct ==
    /\ [](PairwiseDistinct(calls[1].batch))
    /\ [][PairwiseDistinct(index) => PairwiseDistinct(index')]_vars

----------------------------------------------------------------------------
(* SpecThermal: the ThermalMonitor of main.py.  One thread calls              *)
(* start_monitoring and stop_monitoring, the monitor threads run              *)
(* _monitor_loop one iteration per step, and _check_thermal_thresholds is     *)
(* also fed directly, as the unit test does.                                  *)

MaxThreads == 2

alert_threshold == 75
halt_threshold == 85
resume_threshold == 70
temp_samples == 3
max_failures == 3
check_interval == 30
join_timeout == 5

\* the temperatures the thermal zone reports, and those fed directly
Readings == {70, 75, 85}
FedReadings == {65, 68, 70, 72, 75, 76, 85, 86}

\* a temperature is a fraction num / den: an average of whole readings
Temp(r) == [num |-> r, den |-> 1]
Ge(t, threshold) == t.num >= threshold * t.den
Le(t, threshold) == t.num <= threshold * t.den

RECURSIVE Sum(_)
Sum(s) == IF s = <<>> THEN 0 ELSE Head(s) + Sum(Tail(s))

\* deque(maxlen=temp_samples).append
DequeAppend(history, x) ==
    IF Len(history) < temp_samples THEN Append(history, x)
    ELSE Append(Tail(history), x)

\* get_average_temperature on a non-empty history
get_average_temperature(history) == [num |-> Sum(history), den |-> Len(history)]

\* resuming as soon as the average is below the alert threshold
_check_thermal_thresholds_no_hysteresis(m, avg_temp) ==
    IF Ge(avg_temp, halt_threshold) /\ ~m.is_halted
    THEN [m EXCEPT !.is_halted = TRUE, !.is_throttled = TRUE]
    ELSE IF Ge(avg_temp, alert_threshold) /\ ~m.is_throttled
    THEN [m EXCEPT !.is_throttled = TRUE]
    ELSE IF ~Ge(avg_temp, alert_threshold) /\ (m.is_throttled \/ m.is_halted)
    THEN [m EXCEPT !.is_halted = FALSE, !.is_throttled = FALSE]
    ELSE m

\* ThermalMonitor._check_thermal_thresholds: the monitor after the call
_check_thermal_thresholds(m, avg_temp) ==
    IF Ge(avg_temp, halt_threshold) /\ ~m.is_halted
    THEN [m EXCEPT !.is_halted = TRUE, !.is_throttled = TRUE]
    ELSE IF Ge(avg_temp, alert_threshold) /\ ~m.is_throttled
    THEN [m EXCEPT !.is_throttled = TRUE]
    ELSE IF Le(avg_temp, resume_threshold) /\ (m.is_throttled \/ m.is_halted)
    THEN [m EXCEPT !.is_halted = FALSE, !.is_throttled = FALSE]
    ELSE m

\* ThermalMonitor(): a thermal zone was found or not; monitor_thread 0 is None
InitThermal ==
    /\ ChunkIdle
    /\ PipeIdle
    /\ HashIdle
    /\ tm \in [thermal_zone_path : BOOLEAN, is_monitoring : {FALSE},
               monitor_thread : {0}, temperature_history : {<<>>},
               is_throttled : {FALSE}, is_halted : {FALSE}]
    /\ threads = <<>>
    /\ last_avg = <<>>
    /\ ctl = [pc |-> "idle"]

\* start_monitoring
StartMonitoring ==
    /\ ctl.pc = "idle"
    /\ IF tm.is_monitoring \/ ~tm.thermal_zone_path
       THEN UNCHANGED <<tm, threads>>
       ELSE /\ Len(threads) < MaxThreads
            /\ tm' = [tm EXCEPT !.is_monitoring = TRUE,
                                !.monitor_thread = Len(threads) + 1]
            /\ threads' = Append(threads, [pc |-> "loop", failure_count |-> 0])
    /\ UNCHANGED <<last_avg, ctl>>
    /\ UNCHANGED chunkVars
    /\ UNCHANGED pipeVars
    /\ UNCHANGED hashVars

\* stop_monitoring up to the join
StopMonitoring ==
    /\ ctl.pc = "idle"
    /\ tm' = [tm EXCEPT !.is_monitoring = FALSE]
    /\ ctl' = [pc |-> IF tm.monitor_thread # 0 THEN "joining" ELSE "idle"]
    /\ UNCHANGED <<threads, last_avg>>
    /\ UNCHANGED chunkVars
    /\ UNCHANGED pipeVars
    /\ UNCHANGED hashVars

\* monitor_thread.join(timeout=5.0) returns: the thread has ended, or it is
\* still in a sleep that outlasts the timeout
JoinReturns ==
    /\ ctl.pc = "joining"
    /\ \/ threads[tm.monitor_thread].pc = "exited"
       \/ threads[tm.monitor_thread].pc = "sleeping" /\ join_timeout < check_interval
    /\ ctl' = [pc |-> "idle"]
    /\ UNCHANGED <<tm, threads, last_avg>>
    /\ UNCHANGED chunkVars
    /\ UNCHANGED pipeVars
    /\ UNCHANGED hashVars

\* _monitor_loop of thread t: the test of "while self.is_monitoring" and one
\* iteration up to its sleep; temp is <<>> when the read fails.  failure_count is
\* only compared with max_failures and is kept up to that value.
MonitorLoop(t, temp) ==
    /\ t \in DOMAIN threads
    /\ threads[t].pc = "loop"
    /\ IF ~tm.is_monitoring
       THEN /\ threads' = [threads EXCEPT ![t].pc = "exited"]
            /\ UNCHANGED <<tm, last_avg>>
       ELSE IF temp # <<>>
       THEN LET history == DequeAppend(tm.temperature_history, temp[1])
                avg_temp == get_average_temperature(history)
            IN  /\ tm' = _check_thermal_thresholds(
                             [tm EXCEPT !.temperature_history = history], avg_temp)
                /\ last_avg' = <<avg_temp>>
                /\ threads' = [threads EXCEPT ![t] =
                                  [pc |-> "sleeping", failure_count |-> 0]]
       ELSE /\ threads' = [threads EXCEPT ![t] =
                              [pc |-> "sleeping",
                               failure_count |-> MinOf(threads[t].failure_count + 1,
                                                       max_failures)]]
            /\ UNCHANGED <<tm, last_avg>>
    /\ UNCHANGED ctl
    /\ UNCHANGED chunkVars
    /\ UNCHANGED pipeVars
    /\ UNCHANGED hashVars

\* time.sleep(...) of thread t returns
Wake(t) ==
    /\ t \in DOMAIN threads
    /\ threads[t].pc = "sleeping"
    /\ threads' = [threads EXCEPT ![t].pc = "loop"]
    /\ UNCHANGED <<tm, last_avg, ctl>>
    /\ UNCHANGED chunkVars
    /\ UNCHANGED pipeVars
    /\ UNCHANGED hashVars

\* _check_thermal_thresholds called with a reading on a monitor that has not been
\* started, as the unit test calls it
CheckThresholds(reading) ==
    /\ threads = <<>>
    /\ tm' = _check_thermal_thresholds(tm, Temp(reading))
    /\ last_avg' = <<Temp(reading)>>
    /\ UNCHANGED <<threads, ctl>>
    /\ UNCHANGED chunkVars
    /\ UNCHANGED pipeVars
    /\ UNCHANGED hashVars

NextThermal ==
    \/ StartMonitoring
    \/ StopMonitoring
    \/ JoinReturns
    \/ \E t \in 1..MaxThreads, temp \in {<<>>} \cup {<<r>> : r \in Readings} :
           MonitorLoop(t, temp)
    \/ \E t \in 1..MaxThreads : Wake(t)
    \/ \E reading \in FedReadings : CheckThresholds(reading)

SpecThermal == InitThermal /\ [][NextThermal]_vars

----------------------------------------------------------------------------
(* Claims about the ThermalMonitor (SpecThermal) *)

Flags(m) == <<m.is_throttled, m.is_halted>>

\* C25: over any sequence of averages given to _check_thermal_thresholds the
\* monitor becomes halted (and throttled) on a reading >= 85, throttled on a
\* reading >= 75, and normal again only on a reading <= 70; a reading strictly
\* between 70 and 75 never changes the state, and once throttled or halted it
\* stays so until a reading <= 70.
C25_Hysteresis ==
    /\ [](last_avg # <<>> =>
             /\ Ge(last_avg[1], halt_threshold) => tm.is_halted /\ tm.is_throttled
             /\ Ge(last_avg[1], alert_threshold) => tm.is_throttled
             /\ Le(last_avg[1], resume_threshold) => ~tm.is_throttled /\ ~tm.is_halted)
    /\ [](tm.is_halted => tm.is_throttled)
    /\ [][Flags(tm') # Flags(tm) =>
              /\ last_avg' # <<>>
              /\ (tm'.is_halted /\ ~tm.is_halted) => Ge(last_avg'[1], halt_threshold)
              /\ (tm'.is_throttled /\ ~tm.is_throttled)
                     => Ge(last_avg'[1], alert_threshold)
              /\ ((tm.is_throttled /\ ~tm'.is_throttled) \/ (tm.is_halted /\ ~tm'.is_halted))
                     => Le(last_avg'[1], resume_threshold)]_vars
    /\ [][(/\ last_avg' # <<>>
           /\ ~Le(last_avg'[1], resume_threshold)
           /\ ~Ge(last_avg'[1], alert_threshold)) => Flags(tm') = Flags(tm)]_vars

\* the monitor is still halted after an average between the resume and the alert
\* threshold came out of the rolling history
C25_Witness ==
    /\ tm.is_halted /\ tm.is_throttled
    /\ Len(tm.temperature_history) = temp_samples
    /\ last_avg = <<get_average_temperature(tm.temperature_history)>>
    /\ ~Le(last_avg[1], resume_threshold)
    /\ ~Ge(last_avg[1], alert_threshold)

\* C30: after any interleaving of start_monitoring and stop_monitoring at most
\* one monitoring loop is running: a loop stopped by stop_monitoring never runs
\* another iteration alongside a loop created by a later start_monitoring.
C30_SingleLoop ==
    [][\A t \in DOMAIN threads :
           (t # tm.monitor_thread /\ threads[t].pc = "loop")
               => threads'[t].pc \in {"loop", "exited"}]_vars

====
